---- MODULE Spec2Model ----
(***************************************************************************)
(* School-store stock simulator: the price generator                      *)
(* (simulation/simulator.py) and the trading ledger served by the Flask    *)
(* routes of app.py.                                                       *)
(*                                                                         *)
(* Money is a Python float in the program.  Here a float is an integer     *)
(* count of units of 2^-FracBits, kept to MantBits significant bits with   *)
(* round-half-to-even after every arithmetic operation (Fl), so that       *)
(* additions and subtractions lose low bits the way binary floating point  *)
(* does.  Integers of the program (day, qty, holdings) are exact.          *)
(*                                                                         *)
(* Product names are romanised: ion_drink = 이온음료, okkubap = 오꾸밥,       *)
(* ice_cream = 아이스크림, jelly = 젤리, pokemon_bread = 포켓몬빵.             *)
(***************************************************************************)
EXTENDS Integers, Sequences, FiniteSets, TLC

\* ------------------------------------------------------------------------
\* Bounds of the model
\* ------------------------------------------------------------------------
\* fractional bits of the float stand-in (one unit = 2^-FracBits)
FracBits == 4
\* significant bits the float stand-in keeps
MantBits == 20
\* trades the history holds before the client stops sending valid orders
MaxHistory == 2
\* the last calendar date (reading of datetime.today()) a request can see;
\* dates count from 0
MaxToday == 0
\* the client sends orders on days 1..TradingDays and on the last day
TradingDays == 1

\* ------------------------------------------------------------------------
\* Float stand-in
\* ------------------------------------------------------------------------
RECURSIVE Pow2(_)
Pow2(n) == IF n <= 0 THEN 1 ELSE 2 * Pow2(n - 1)

Unit == Pow2(FracBits)

\* the least integer with more than MantBits bits
MantLimit == Pow2(MantBits)

\* number of low bits m >= 0 has beyond MantBits significant bits
RECURSIVE ExtraBits(_)
ExtraBits(m) == IF m < MantLimit THEN 0 ELSE 1 + ExtraBits(m \div 2)

\* n / d rounded to the nearest integer, ties to even (n >= 0, d > 0)
RoundDiv(n, d) ==
    IF 2 * (n % d) > d \/ (2 * (n % d) = d /\ (n \div d) % 2 = 1)
    THEN (n \div d) + 1
    ELSE n \div d

\* m >= 0 kept to MantBits significant bits, drop = ExtraBits(m)
KeepBits(m, drop) ==
    IF drop = 0 THEN m ELSE RoundDiv(m, Pow2(drop)) * Pow2(drop)

\* nearest representable float of the exact value n (in units)
Fl(n) ==
    IF -MantLimit < n /\ n < MantLimit
    THEN n
    ELSE IF n < 0
    THEN -KeepBits(-n, ExtraBits(-n))
    ELSE KeepBits(n, ExtraBits(n))

\* Decimal text of a float, as repr() writes it into a JSON or CSV file: the
\* whole part and the fraction, the fraction counted in 10^-FracBits (every
\* float of the stand-in has a finite decimal expansion of FracBits digits)
RECURSIVE Pow10(_)
Pow10(n) == IF n <= 0 THEN 1 ELSE 10 * Pow10(n - 1)

DecimalScale == Pow10(FracBits)

Decimal(x) == [whole |-> x \div Unit, frac |-> ((x % Unit) * DecimalScale) \div Unit]

\* the float nearest to a decimal text
ParseDecimal(t) == Fl(t.whole * Unit + RoundDiv(t.frac * Unit, DecimalScale))

\* float of an integer of the program
ToFloat(i) == Fl(i * Unit)

FAdd(x, y) == Fl(x + y)
FSub(x, y) == Fl(x - y)
\* float times a program integer
FMulInt(x, k) == Fl(x * k)
\* FPerturb adding the drift to the price instead of scaling the price by it
FPerturbAdditive(x, d) == Fl(x + RoundDiv(d * Unit, 10))

\* x * (1 + d/1000) for a per-mille perturbation d
FPerturb(x, d) == Fl(RoundDiv(x * (1000 + d), 1000))

\* ------------------------------------------------------------------------
\* simulation/simulator.py
\* ------------------------------------------------------------------------
ProductOrder == <<"ion_drink", "okkubap", "ice_cream", "jelly", "pokemon_bread">>

PRODUCTS ==
    [ion_drink     |-> [base_price |-> ToFloat(100), base_sales |-> 50],
     okkubap       |-> [base_price |-> ToFloat(200), base_sales |-> 30],
     ice_cream     |-> [base_price |-> ToFloat(150), base_sales |-> 25],
     jelly         |-> [base_price |-> ToFloat(80),  base_sales |-> 40],
     pokemon_bread |-> [base_price |-> ToFloat(120), base_sales |-> 35]]

ProductNames == DOMAIN PRODUCTS

DAYS == 30

\* np.random: the generator state after np.random.seed(seed), and one step of
\* it (a 16-bit linear congruential stand-in for the Mersenne Twister)
Seeded(seed) == (seed * 40503 + 12345) % 65536
NextRand(s) == (s * 25173 + 13849) % 65536
\* the value a draw reads off the generator state
Bits(s) == s \div 16

\* np.random.choice(range(lo, hi)) and np.random.uniform(-w, w) in per mille
Choice(s, lo, hi) == lo + (Bits(s) % (hi - lo))
Uniform(s, w) == (Bits(s) % (2 * w)) - w

\* max(0, int(round(base * (1 + noise)))), noise in per mille
UnitsSold(base, noise) ==
    IF RoundDiv(base * (1000 + noise), 1000) < 0
    THEN 0
    ELSE RoundDiv(base * (1000 + noise), 1000)

\* one product of one day: the record and the generator state after it;
\* s1 and s2 are the generator states behind the two draws
ProductRecord(day, today, temp, humidity, p, prev, s1, s2) ==
    [rec |-> [day |-> day, date |-> today + (day - 1), event |-> "normal",
              temp |-> temp, humidity |-> humidity, product |-> p,
              price_start |-> prev,
              price_end |-> FPerturb(prev, Uniform(s2, 50)),
              units_sold |-> UnitsSold(PRODUCTS[p].base_sales, Uniform(s1, 100)),
              revenue |-> FMulInt(prev, UnitsSold(PRODUCTS[p].base_sales, Uniform(s1, 100)))],
     rng |-> s2]

\* the inner loop over the products of one day, from product index i on:
\* the day's records, the prices carried to the next day and the generator state
RECURSIVE DayRecords(_, _, _, _, _, _, _)

\* AfterProduct leaving prev_prices[p] as it was
AfterProductNoCarry(day, today, temp, humidity, i, prev_prices, one) ==
    [DayRecords(day, today, temp, humidity, i + 1, prev_prices, one.rng)
     EXCEPT !.records = <<one.rec>> \o @]

\* the rest of the inner loop once product i has its record, one
AfterProduct(day, today, temp, humidity, i, prev_prices, one) ==
    [DayRecords(day, today, temp, humidity, i + 1,
                [prev_prices EXCEPT ![ProductOrder[i]] = one.rec.price_end], one.rng)
     EXCEPT !.records = <<one.rec>> \o @]

DayRecords(day, today, temp, humidity, i, prev_prices, s) ==
    IF i > Len(ProductOrder)
    THEN [records |-> <<>>, prev_prices |-> prev_prices, rng |-> s]
    ELSE AfterProduct(day, today, temp, humidity, i, prev_prices,
                      ProductRecord(day, today, temp, humidity, ProductOrder[i],
                                    prev_prices[ProductOrder[i]],
                                    NextRand(s), NextRand(NextRand(s))))

\* the outer loop over the days, from day on
RECURSIVE SimulateFrom(_, _, _, _)

\* the rest of the outer loop once the day has its records, d
AfterDay(day, today, d) ==
    d.records \o SimulateFrom(day + 1, today, d.prev_prices, d.rng)

\* SimulateFrom with range(1, DAYS): the last day is left out
SimulateFromStopsEarly(day, today, prev_prices, s) ==
    IF day >= DAYS
    THEN <<>>
    ELSE AfterDay(day, today,
                  DayRecords(day, today,
                             Choice(NextRand(s), 10, 36),
                             Choice(NextRand(NextRand(s)), 20, 91),
                             1, prev_prices, NextRand(NextRand(s))))

SimulateFrom(day, today, prev_prices, s) ==
    IF day > DAYS
    THEN <<>>
    ELSE AfterDay(day, today,
                  DayRecords(day, today,
                             Choice(NextRand(s), 10, 36),
                             Choice(NextRand(NextRand(s)), 20, 91),
                             1, prev_prices, NextRand(NextRand(s))))

\* run_simulation(seed): the DataFrame, for a call made on calendar date today
run_simulation(seed, today) ==
    SimulateFrom(1, today, [p \in ProductNames |-> PRODUCTS[p].base_price], Seeded(seed))

\* the default argument seed=42 of run_simulation
DefaultSeed == 42

\* calendar dates on which a simulation can be run (datetime.today())
Dates == 0..MaxToday

\* run_simulation() as app.py calls it, by the date of the call
DefaultRun == [today \in Dates |-> run_simulation(DefaultSeed, today)]

\* ------------------------------------------------------------------------
\* app.py: files and helpers
\* ------------------------------------------------------------------------
\* A file is <<>> when it does not exist and <<content>> when it does.
\* stateFile is data/game_state.json: its content is kept as the game state
\* json.load reads from the JSON text json.dump wrote.
\* pricesFile is data/prices.csv: the only writer is init_simulation, which
\* writes the DataFrame of run_simulation() made that day, so the content is
\* kept as the date t of that run and stands for the text CsvText[t].
\* response is the last response the server sent.  inflight and acks belong to
\* the server that handles requests in parallel threads (see the end of the
\* module): inflight[t] is what thread t holds between its load_state() and
\* the rest of its handler, acks counts the requests started and the orders
\* and day advances answered with ok.  sim belongs to the callers of the
\* price generator on its own (see "The price generator called twice").
VARIABLES stateFile, pricesFile, response, inflight, acks, sim

vars == <<stateFile, pricesFile, response, inflight, acks, sim>>

\* starting cash of a new game
InitialCash == 1000000

\* the game state init_simulation builds
init_state ==
    [day |-> 1,
     cash |-> ToFloat(InitialCash),
     holdings |-> [p \in ProductNames |-> 0],
     history |-> <<>>]

\* df.to_csv(...): the rows with their floats written as decimal text
FormatRow(r) ==
    [r EXCEPT !.price_start = Decimal(@), !.price_end = Decimal(@),
              !.revenue = Decimal(@)]
to_csv(df) == [i \in 1..Len(df) |-> FormatRow(df[i])]

\* pd.read_csv(...): the rows with their decimal texts parsed to floats
ParseRow(t) ==
    [t EXCEPT !.price_start = ParseDecimal(@), !.price_end = ParseDecimal(@),
              !.revenue = ParseDecimal(@)]
read_csv(text) == [i \in 1..Len(text) |-> ParseRow(text[i])]

\* the text of data/prices.csv init_simulation writes on a date, and the
\* DataFrame load_prices_df reads from it, each computed once
CsvText == [today \in Dates |-> to_csv(DefaultRun[today])]
LoadedCsv == [today \in Dates |-> read_csv(CsvText[today])]

\* json.dump(state, f): the state with its floats written as decimal text
DumpTrade(trade) == [trade EXCEPT !.price = Decimal(@), !.amount = Decimal(@)]
json_dump(state) ==
    [state EXCEPT !.cash = Decimal(@),
                  !.history = [i \in 1..Len(state.history) |-> DumpTrade(state.history[i])]]

\* json.load(f): the state with its decimal texts parsed to floats
LoadTrade(t) == [t EXCEPT !.price = ParseDecimal(@), !.amount = ParseDecimal(@)]
json_load(text) ==
    [text EXCEPT !.cash = ParseDecimal(@),
                 !.history = [i \in 1..Len(text.history) |-> LoadTrade(text.history[i])]]

\* init_simulation(): the new DataFrame and state, and the files it leaves
init_simulation(today) ==
    [df |-> DefaultRun[today],
     state |-> init_state,
     disk |-> [prices |-> <<today>>, state |-> <<json_load(json_dump(init_state))>>]]

\* load_prices_df(): the DataFrame read, and the files afterwards
load_prices_df(disk, today) ==
    IF disk.prices = <<>>
    THEN [df |-> init_simulation(today).df, disk |-> init_simulation(today).disk]
    ELSE [df |-> LoadedCsv[disk.prices[1]], disk |-> disk]

\* load_state(): the state read, and the files afterwards
load_state(disk, today) ==
    IF disk.state = <<>>
    THEN [state |-> init_simulation(today).state, disk |-> init_simulation(today).disk]
    ELSE [state |-> disk.state[1], disk |-> disk]

\* save_state(state)
save_state(disk, state) == [disk EXCEPT !.state = <<json_load(json_dump(state))>>]

\* df[cond]: the rows of a DataFrame that satisfy Keep, in order
Rows(df, Keep(_)) == SelectSeq(df, Keep)

\* row.iloc[0] and row.iloc[-1]
First(rows) == rows[1]
Last(rows) == rows[Len(rows)]

\* the price of product p on a day, given the whole DataFrame
PriceOf(df, dayNo, p) ==
    IF Rows(df, LAMBDA r : r.day = dayNo /\ r.product = p) # <<>>
    THEN First(Rows(df, LAMBDA r : r.day = dayNo /\ r.product = p)).price_end
    ELSE Last(Rows(df, LAMBDA r : r.product = p)).price_end

\* the dictionary get_today_prices builds from a DataFrame
PricesOn(df, dayNo) == [p \in ProductNames |-> PriceOf(df, dayNo, p)]

\* PricesOn for every prices file and every day number a game state can hold,
\* computed once
StoredPrices ==
    [content \in Dates |-> [dayNo \in 1..(DAYS + 1) |-> PricesOn(LoadedCsv[content], dayNo)]]

\* the dictionary get_today_prices builds from the prices file it loaded
TodayPrices(loaded, dayNo) ==
    [prices |-> StoredPrices[loaded.disk.prices[1]][dayNo], disk |-> loaded.disk]

\* get_today_prices(day): {product: price}, and the files afterwards
get_today_prices(disk, dayNo, today) == TodayPrices(load_prices_df(disk, today), dayNo)

\* sum(holdings[p] * prices[p] for p in holdings), from product index i on
RECURSIVE PortfolioSum(_, _, _, _)
PortfolioSum(holdings, prices, i, acc) ==
    IF i > Len(ProductOrder)
    THEN acc
    ELSE PortfolioSum(holdings, prices, i + 1,
                      FAdd(acc, FMulInt(prices[ProductOrder[i]], holdings[ProductOrder[i]])))

calc_portfolio_value(holdings, prices) == PortfolioSum(holdings, prices, 1, 0)

\* ------------------------------------------------------------------------
\* app.py: routes
\* ------------------------------------------------------------------------
\* A response: the route that answered, the HTTP status, the "ok" and "msg"
\* fields of the JSON body, its "day" field (0 when absent) and, for
\* /api/state, the snapshot (<<>> when absent).  The messages stand for
\*   no_such_product   "존재하지 않는 상품입니다."
\*   bad_side          "side는 buy 또는 sell이어야 합니다."
\*   bad_qty           "수량은 1 이상이어야 합니다."
\*   no_cash           "현금이 부족합니다."
\*   no_holdings       "보유 수량이 부족합니다."
\*   last_day          "마지막 날입니다."
\*   exception         (an uncaught exception: Flask answers 500)
Reply(route, status, ok, msg) ==
    [route |-> route, status |-> status, ok |-> ok, msg |-> msg,
     day |-> 0, snapshot |-> <<>>]

\* The "qty" of a request body as JSON carries it:
\*   [k |-> "int", v |-> n]    the integer n
\*   [k |-> "half", v |-> n]   the number n + 0.5
\*   [k |-> "text", v |-> 0]   a string that is no number
\*   [k |-> "absent", v |-> 0] no "qty" key
\* int(data.get("qty", 0)): the integer, or "raises" (ValueError)
IntRaises(raw) == raw.k = "text"
IntOf(raw) ==
    CASE raw.k = "int" -> raw.v
      [] raw.k = "half" -> IF raw.v >= 0 THEN raw.v ELSE raw.v + 1
      [] OTHER -> 0

\* BuyStep that forgets to take the amount off the cash
BuyStepKeepsCash(state, product, qty, amount) ==
    IF state.cash < amount
    THEN [ok |-> FALSE, msg |-> "no_cash", state |-> state]
    ELSE [ok |-> TRUE, msg |-> "",
          state |-> [state EXCEPT !.holdings[product] = @ + qty]]

\* BuyStep without the check of the cash
BuyStepUnchecked(state, product, qty, amount) ==
    [ok |-> TRUE, msg |-> "",
     state |-> [state EXCEPT !.cash = FSub(@, amount),
                             !.holdings[product] = @ + qty]]

\* BuyStep that counts one unit however many were bought
BuyStepCountsOne(state, product, qty, amount) ==
    IF state.cash < amount
    THEN [ok |-> FALSE, msg |-> "no_cash", state |-> state]
    ELSE [ok |-> TRUE, msg |-> "",
          state |-> [state EXCEPT !.cash = FSub(@, amount),
                                  !.holdings[product] = @ + 1]]

\* the branch of api_order that checks and applies a buy
BuyStep(state, product, qty, amount) ==
    IF state.cash < amount
    THEN [ok |-> FALSE, msg |-> "no_cash", state |-> state]
    ELSE [ok |-> TRUE, msg |-> "",
          state |-> [state EXCEPT !.cash = FSub(@, amount),
                                  !.holdings[product] = @ + qty]]

\* SellStep comparing with <= instead of <
SellStepStrict(state, product, qty, amount) ==
    IF state.holdings[product] <= qty
    THEN [ok |-> FALSE, msg |-> "no_holdings", state |-> state]
    ELSE [ok |-> TRUE, msg |-> "",
          state |-> [state EXCEPT !.holdings[product] = @ - qty,
                                  !.cash = FAdd(@, amount)]]

\* SellStep assigning the amount to the cash instead of adding it
SellStepAssigns(state, product, qty, amount) ==
    IF state.holdings[product] < qty
    THEN [ok |-> FALSE, msg |-> "no_holdings", state |-> state]
    ELSE [ok |-> TRUE, msg |-> "",
          state |-> [state EXCEPT !.holdings[product] = @ - qty,
                                  !.cash = amount]]

\* the branch of api_order that checks and applies a sell
SellStep(state, product, qty, amount) ==
    IF state.holdings[product] < qty
    THEN [ok |-> FALSE, msg |-> "no_holdings", state |-> state]
    ELSE [ok |-> TRUE, msg |-> "",
          state |-> [state EXCEPT !.holdings[product] = @ - qty,
                                  !.cash = FAdd(@, amount)]]

\* TradeOf recording the unit price as the amount
TradeOfUnitAmount(dayNo, product, side, qty, price, amount) ==
    [day |-> dayNo, product |-> product, side |-> side, qty |-> qty,
     price |-> price, amount |-> price]

\* the Trade api_order appends
TradeOf(dayNo, product, side, qty, price, amount) ==
    [day |-> dayNo, product |-> product, side |-> side, qty |-> qty,
     price |-> price, amount |-> amount]

\* FinishOrder putting the trade at the head of the history
FinishOrderPrepends(disk, step, trade) ==
    IF step.ok
    THEN [disk |-> save_state(disk, [step.state EXCEPT !.history = <<trade>> \o @]),
          response |-> Reply("order", 200, TRUE, "")]
    ELSE [disk |-> disk, response |-> Reply("order", 400, FALSE, step.msg)]

\* FinishOrder recording and saving the trade before it looks at the outcome
FinishOrderSavesFirst(disk, step, trade) ==
    [disk |-> save_state(disk, [step.state EXCEPT !.history = Append(@, trade)]),
     response |-> IF step.ok
                  THEN Reply("order", 200, TRUE, "")
                  ELSE Reply("order", 400, FALSE, step.msg)]

\* api_order, lines 148-159 and the two failure returns: step is the outcome
\* of the buy or sell branch, trade the Trade to record
FinishOrder(disk, step, trade) ==
    IF step.ok
    THEN [disk |-> save_state(disk, [step.state EXCEPT !.history = Append(@, trade)]),
          response |-> Reply("order", 200, TRUE, "")]
    ELSE [disk |-> disk, response |-> Reply("order", 400, FALSE, step.msg)]

\* api_order, lines 132-146, with price = prices[product]
SettleOrder(disk, state, product, side, qty, price, amount) ==
    FinishOrder(disk,
                IF side = "buy"
                THEN BuyStep(state, product, qty, amount)
                ELSE SellStep(state, product, qty, amount),
                TradeOf(state.day, product, side, qty, price, amount))

\* api_order, lines 129-132, with got = get_today_prices(day)
PriceOrder(got, state, product, side, qty) ==
    SettleOrder(got.disk, state, product, side, qty,
                got.prices[product], FMulInt(got.prices[product], qty))

\* api_order, lines 117-129, with loaded = load_state()
CheckOrder(loaded, product, side, raw, today) ==
    IF IntRaises(raw)
    THEN [disk |-> loaded.disk, response |-> Reply("order", 500, FALSE, "exception")]
    ELSE IF product \notin ProductNames
    THEN [disk |-> loaded.disk, response |-> Reply("order", 400, FALSE, "no_such_product")]
    ELSE IF side \notin {"buy", "sell"}
    THEN [disk |-> loaded.disk, response |-> Reply("order", 400, FALSE, "bad_side")]
    ELSE IF IntOf(raw) <= 0
    THEN [disk |-> loaded.disk, response |-> Reply("order", 400, FALSE, "bad_qty")]
    ELSE PriceOrder(get_today_prices(loaded.disk, loaded.state.day, today),
                    loaded.state, product, side, IntOf(raw))

\* POST /api/order with body {product, side, qty}: files and response after it
api_order(disk, product, side, raw, today) ==
    CheckOrder(load_state(disk, today), product, side, raw, today)

\* StepDay that answers the failure on the last day but starts over at day 1
StepDayWraps(loaded) ==
    IF loaded.state.day < DAYS
    THEN [disk |-> save_state(loaded.disk, [loaded.state EXCEPT !.day = @ + 1]),
          response |-> [Reply("next_day", 200, TRUE, "") EXCEPT !.day = loaded.state.day + 1]]
    ELSE [disk |-> save_state(loaded.disk, [loaded.state EXCEPT !.day = 1]),
          response |-> Reply("next_day", 200, FALSE, "last_day")]

\* StepDay comparing with <= instead of <
StepDayPastEnd(loaded) ==
    IF loaded.state.day <= DAYS
    THEN [disk |-> save_state(loaded.disk, [loaded.state EXCEPT !.day = @ + 1]),
          response |-> [Reply("next_day", 200, TRUE, "") EXCEPT !.day = loaded.state.day + 1]]
    ELSE [disk |-> loaded.disk, response |-> Reply("next_day", 200, FALSE, "last_day")]

\* StepDay that moves on by two days
StepDaySkips(loaded) ==
    IF loaded.state.day < DAYS
    THEN [disk |-> save_state(loaded.disk, [loaded.state EXCEPT !.day = @ + 2]),
          response |-> [Reply("next_day", 200, TRUE, "") EXCEPT !.day = loaded.state.day + 2]]
    ELSE [disk |-> loaded.disk, response |-> Reply("next_day", 200, FALSE, "last_day")]

\* StepDay that starts the new day with an empty history
StepDayClearsHistory(loaded) ==
    IF loaded.state.day < DAYS
    THEN [disk |-> save_state(loaded.disk, [loaded.state EXCEPT !.day = @ + 1, !.history = <<>>]),
          response |-> [Reply("next_day", 200, TRUE, "") EXCEPT !.day = loaded.state.day + 1]]
    ELSE [disk |-> loaded.disk, response |-> Reply("next_day", 200, FALSE, "last_day")]

\* api_next_day, lines 166-171, with loaded = load_state()
StepDay(loaded) ==
    IF loaded.state.day < DAYS
    THEN [disk |-> save_state(loaded.disk, [loaded.state EXCEPT !.day = @ + 1]),
          response |-> [Reply("next_day", 200, TRUE, "") EXCEPT !.day = loaded.state.day + 1]]
    ELSE [disk |-> loaded.disk, response |-> Reply("next_day", 200, FALSE, "last_day")]

\* POST /api/next-day
api_next_day(disk, today) == StepDay(load_state(disk, today))

\* api_reset_game regenerating the prices only
api_reset_gameKeepsState(disk, today) ==
    [disk |-> [disk EXCEPT !.prices = <<today>>],
     response |-> Reply("reset", 200, TRUE, "")]

\* POST /api/reset-game
api_reset_game(disk, today) ==
    [disk |-> init_simulation(today).disk, response |-> Reply("reset", 200, TRUE, "")]

\* the JSON api_state returns
Snapshot(state, prices, portfolio_value) ==
    [day |-> state.day,
     cash |-> state.cash,
     holdings |-> state.holdings,
     portfolio_value |-> portfolio_value,
     total_value |-> FAdd(state.cash, portfolio_value),
     today_prices |-> [i \in 1..Len(ProductOrder) |->
                          [product |-> ProductOrder[i], price |-> prices[ProductOrder[i]]]],
     history |-> state.history,
     max_day |-> DAYS]

\* api_state, lines 95-107, with got = get_today_prices(day)
ShowState(state, got) ==
    [disk |-> got.disk,
     response |-> [Reply("state", 200, TRUE, "") EXCEPT
        !.snapshot = <<Snapshot(state, got.prices,
                                calc_portfolio_value(state.holdings, got.prices))>>]]

\* api_state, lines 93-94, with loaded = load_state()
PriceState(loaded, today) ==
    ShowState(loaded.state, get_today_prices(loaded.disk, loaded.state.day, today))

\* GET /api/state
api_state(disk, today) == PriceState(load_state(disk, today), today)

\* ------------------------------------------------------------------------
\* The server handling one request at a time
\* ------------------------------------------------------------------------
\* what the modelled client sends
ProductInputs == {"ion_drink", "okkubap", "unknown"}
SideInputs == {"buy", "sell", "hold"}
SmallQty == 10
LargeQty == 6000
QtyInputs ==
    {[k |-> "int", v |-> SmallQty], [k |-> "int", v |-> LargeQty],
     [k |-> "int", v |-> 0], [k |-> "int", v |-> -1],
     [k |-> "half", v |-> 0], [k |-> "half", v |-> SmallQty],
     [k |-> "text", v |-> 0], [k |-> "absent", v |-> 0]}

Disk == [prices |-> pricesFile, state |-> stateFile]

\* the stored game state
Ledger == stateFile[1]

\* the dates a handler other than the reset can read off the clock: it reads
\* the clock only when it finds a file missing and runs init_simulation
ClockReads == IF stateFile = <<>> \/ pricesFile = <<>> THEN Dates ELSE {0}

\* the files and the response after a handler ran
Served(result) ==
    /\ stateFile' = result.disk.state
    /\ pricesFile' = result.disk.prices
    /\ response' = result.response
    /\ UNCHANGED <<inflight, acks, sim>>

\* request threads of the server
Threads == {1, 2}

\* a thread that handles no request
Idle == [pc |-> "idle", product |-> "", side |-> "", raw |-> [k |-> "int", v |-> 0],
         state |-> init_state]

\* np.random draws one run of run_simulation makes
DrawsPerRun == DAYS * (2 + 2 * Len(ProductOrder))

\* sim while nobody calls the generator on its own.  rng is the state of the
\* global np.random generator, kept as the seed it was last seeded with and
\* the number of draws made since (the module seeds it with 42 on import);
\* first and second are the DataFrames two calls returned.
NoSim ==
    [pc |-> "off", seed |-> DefaultSeed, today |-> 0, later |-> 0,
     rng |-> [seed |-> DefaultSeed, draws |-> 0], first |-> <<>>, second |-> <<>>]

\* the state after start-up (__main__ runs init_simulation when a file is missing)
Started(disk) ==
    /\ sim = NoSim
    /\ stateFile = disk.state
    /\ pricesFile = disk.prices
    /\ response = Reply("none", 0, FALSE, "")
    /\ inflight = [t \in Threads |-> Idle]
    /\ acks = [started |-> 0, orders |-> 0, days |-> 0]

Init == \E today \in Dates : Started(init_simulation(today).disk)

\* the client sends no order that would be accepted once the history is full
OrderServed(result) ==
    /\ result.response.ok => Len(Ledger.history) < MaxHistory
    /\ Served(result)

Order ==
    /\ Ledger.day <= TradingDays \/ Ledger.day = DAYS
    /\ \E product \in ProductInputs, side \in SideInputs, raw \in QtyInputs,
          today \in ClockReads :
            OrderServed(api_order(Disk, product, side, raw, today))

NextDay == \E today \in ClockReads : Served(api_next_day(Disk, today))

ResetGame == \E today \in Dates : Served(api_reset_game(Disk, today))

GetState == \E today \in ClockReads : Served(api_state(Disk, today))

Next == Order \/ NextDay \/ ResetGame \/ GetState

Spec == Init /\ [][Next]_vars

\* ------------------------------------------------------------------------
\* The same server when data/prices.csv can disappear between two requests
\* (the file is removed outside the program; load_prices_df provides for it)
\* ------------------------------------------------------------------------
LosePrices ==
    /\ pricesFile # <<>>
    /\ pricesFile' = <<>>
    /\ UNCHANGED <<stateFile, response, inflight, acks, sim>>

LossyNext == Next \/ LosePrices

LossySpec == Init /\ [][LossyNext]_vars

\* ------------------------------------------------------------------------
\* The server handling requests in parallel threads (app.run starts Flask's
\* threaded development server; no handler takes a lock).  A handler runs in
\* two steps: load_state(), then the rest of its body up to save_state().
\* ------------------------------------------------------------------------
\* requests the clients send in all
MaxRequests == 3

OrderLoaded(t, product, side, raw, loaded) ==
    /\ inflight' = [inflight EXCEPT ![t] =
           [pc |-> "order", product |-> product, side |-> side, raw |-> raw,
            state |-> loaded.state]]
    /\ stateFile' = loaded.disk.state
    /\ pricesFile' = loaded.disk.prices
    /\ acks' = [acks EXCEPT !.started = @ + 1]
    /\ UNCHANGED <<response, sim>>

\* api_order, line 116
OrderLoads(t) ==
    /\ inflight[t].pc = "idle"
    /\ acks.started < MaxRequests
    /\ \E product \in {"ion_drink"}, side \in {"buy", "sell"}, today \in ClockReads :
          OrderLoaded(t, product, side, [k |-> "int", v |-> SmallQty],
                      load_state(Disk, today))

OrderCompleted(t, result) ==
    /\ stateFile' = result.disk.state
    /\ pricesFile' = result.disk.prices
    /\ response' = result.response
    /\ acks' = [acks EXCEPT !.orders = IF result.response.ok THEN @ + 1 ELSE @]
    /\ inflight' = [inflight EXCEPT ![t] = Idle]
    /\ UNCHANGED sim

\* api_order, lines 117-159
OrderCompletes(t) ==
    /\ inflight[t].pc = "order"
    /\ \E today \in ClockReads :
          OrderCompleted(t, CheckOrder([state |-> inflight[t].state, disk |-> Disk],
                                       inflight[t].product, inflight[t].side,
                                       inflight[t].raw, today))

NextDayLoaded(t, loaded) ==
    /\ inflight' = [inflight EXCEPT ![t] = [Idle EXCEPT !.pc = "next_day",
                                                       !.state = loaded.state]]
    /\ stateFile' = loaded.disk.state
    /\ pricesFile' = loaded.disk.prices
    /\ acks' = [acks EXCEPT !.started = @ + 1]
    /\ UNCHANGED <<response, sim>>

\* api_next_day, line 165
NextDayLoads(t) ==
    /\ inflight[t].pc = "idle"
    /\ acks.started < MaxRequests
    /\ \E today \in ClockReads : NextDayLoaded(t, load_state(Disk, today))

NextDayCompleted(t, result) ==
    /\ stateFile' = result.disk.state
    /\ pricesFile' = result.disk.prices
    /\ response' = result.response
    /\ acks' = [acks EXCEPT !.days = IF result.response.ok THEN @ + 1 ELSE @]
    /\ inflight' = [inflight EXCEPT ![t] = Idle]
    /\ UNCHANGED sim

\* api_next_day, lines 166-171
NextDayCompletes(t) ==
    /\ inflight[t].pc = "next_day"
    /\ NextDayCompleted(t, StepDay([state |-> inflight[t].state, disk |-> Disk]))

ThreadedNext ==
    \E t \in Threads :
        \/ OrderLoads(t)
        \/ OrderCompletes(t)
        \/ NextDayLoads(t)
        \/ NextDayCompletes(t)

ThreadedSpec == Init /\ [][ThreadedNext]_vars

\* ------------------------------------------------------------------------
\* The price generator called twice: run_simulation(seed=s) on a date, then,
\* after other draws from np.random and after days have passed, once more
\* with the same seed.
\* ------------------------------------------------------------------------
\* the largest seed a caller passes
MaxSeed == 15
\* days that pass at most between the two calls
MaxLater == 1
\* draws other code makes at most from np.random between the two calls
MaxDraws == 1

Seeds == (0..MaxSeed) \cup {DefaultSeed}

SimInit ==
    /\ stateFile = init_simulation(0).disk.state
    /\ pricesFile = init_simulation(0).disk.prices
    /\ response = Reply("none", 0, FALSE, "")
    /\ inflight = [t \in Threads |-> Idle]
    /\ acks = [started |-> 0, orders |-> 0, days |-> 0]
    /\ \E seed \in Seeds, today \in Dates :
          sim = [NoSim EXCEPT !.pc = "ready", !.seed = seed, !.today = today]

\* run_simulation(seed=sim.seed), called on date sim.today
Generate ==
    /\ sim.pc = "ready"
    /\ sim' = [sim EXCEPT !.pc = "made",
                          !.first = run_simulation(sim.seed, sim.today),
                          !.rng = [seed |-> sim.seed, draws |-> DrawsPerRun]]
    /\ UNCHANGED <<stateFile, pricesFile, response, inflight, acks>>

\* other code draws from np.random
OtherDraw ==
    /\ sim.pc = "made"
    /\ sim.rng.draws < DrawsPerRun + MaxDraws
    /\ sim' = [sim EXCEPT !.rng.draws = @ + 1]
    /\ UNCHANGED <<stateFile, pricesFile, response, inflight, acks>>

\* midnight passes
DayPasses ==
    /\ sim.pc = "made"
    /\ sim.later < MaxLater
    /\ sim' = [sim EXCEPT !.later = @ + 1]
    /\ UNCHANGED <<stateFile, pricesFile, response, inflight, acks>>

\* run_simulation(seed=sim.seed) again, on date sim.today + sim.later
Regenerate ==
    /\ sim.pc = "made"
    /\ sim' = [sim EXCEPT !.pc = "remade",
                          !.second = run_simulation(sim.seed, sim.today + sim.later),
                          !.rng = [seed |-> sim.seed, draws |-> DrawsPerRun]]
    /\ UNCHANGED <<stateFile, pricesFile, response, inflight, acks>>

SimNext == Generate \/ OtherDraw \/ DayPasses \/ Regenerate

SimSpec == SimInit /\ [][SimNext]_vars

\* ------------------------------------------------------------------------
\* Properties
\* ------------------------------------------------------------------------
\* price_end of the record of day d and product p in a series
PriceEndIn(series, d, p) ==
    series[CHOOSE i \in 1..Len(series) :
              series[i].day = d /\ series[i].product = p].price_end

\* PriceEndIn for every series, day and product, computed once
PriceEndOf ==
    [today \in Dates |-> [d \in 1..DAYS |-> [p \in ProductNames |->
        PriceEndIn(DefaultRun[today], d, p)]]]

\* priceEnd(d, p) of the series the game runs on
priceEnd(d, p) == PriceEndOf[pricesFile[1]][d][p]

\* the game state a result leaves in the state file
LedgerAfter(result) == result.disk.state[1]

\* C1 (solvency): after every request, accepted or rejected, the cash and the
\* holdings of every product are >= 0.
Solvency ==
    /\ Ledger.cash >= 0
    /\ \A p \in ProductNames : Ledger.holdings[p] >= 0

\* a buy was rejected for lack of cash after earlier trades were accepted
SolvencyWitness ==
    /\ response.route = "order"
    /\ response.msg = "no_cash"
    /\ Len(Ledger.history) > 0
    /\ Ledger.cash < ToFloat(InitialCash)

\* C2 (day bounds): in every state 1 <= day <= DAYS.
DayBounds == 1 <= Ledger.day /\ Ledger.day <= DAYS

\* the last day was reached by advancing
DayBoundsWitness ==
    /\ Ledger.day = DAYS
    /\ response.route = "next_day"
    /\ response.ok
    /\ response.day = DAYS

\* C3 (failure atomicity): a request to /api/order answered with a failure
\* leaves the stored game state (day, cash, holdings, history) as it was.
FailureAtomicity ==
    [][(response'.route = "order" /\ ~response'.ok) => stateFile' = stateFile]_vars

\* a sell was rejected for lack of holdings in a game that has traded
FailureAtomicityWitness ==
    /\ response.route = "order"
    /\ response.msg = "no_holdings"
    /\ Len(Ledger.history) > 0

\* C4 (serialization) as the claim states it: once no request is in flight,
\* every order answered ok has its trade in the history and every day advance
\* answered ok shows in the day.
NoLostUpdate ==
    (\A t \in Threads : inflight[t].pc = "idle") =>
        /\ Len(Ledger.history) = acks.orders
        /\ Ledger.day = 1 + acks.days

\* an integer quantity as a request carries it
IntQty(q) == [k |-> "int", v |-> q]

\* C5 (horizon boundary): /api/next-day on the last day answers a failure and
\* leaves the day at DAYS; before the last day it answers ok with the new day
\* and the day becomes the old day + 1.
HorizonBoundary ==
    [][response'.route = "next_day" =>
          IF Ledger.day = DAYS
          THEN ~response'.ok /\ Ledger'.day = DAYS
          ELSE /\ response'.ok
               /\ response'.day = Ledger.day + 1
               /\ Ledger'.day = Ledger.day + 1]_vars

\* /api/next-day was refused on the last day
HorizonBoundaryWitness ==
    /\ Ledger.day = DAYS
    /\ response.route = "next_day"
    /\ response.msg = "last_day"

\* quantities that probe a buy of p: a small one and the two around
\* cash / price
BuyProbes(p) ==
    {q \in {SmallQty,
            Ledger.cash \div priceEnd(Ledger.day, p),
            (Ledger.cash \div priceEnd(Ledger.day, p)) + 1} : q > 0}

\* what C6 says of the result of a buy of q of p for the amount
BuyAsClaimed(p, q, amount, result) ==
    /\ result.response.ok <=> Ledger.cash >= amount
    /\ result.response.ok =>
          /\ LedgerAfter(result).cash = FSub(Ledger.cash, amount)
          /\ LedgerAfter(result).holdings[p] = Ledger.holdings[p] + q
          /\ \A other \in ProductNames \ {p} :
                LedgerAfter(result).holdings[other] = Ledger.holdings[other]
          /\ LedgerAfter(result).day = Ledger.day

\* C6 (buy rule): in every reachable state, a buy of a positive quantity q of
\* a registered product, with price = priceEnd(day, product) and amount =
\* price * q (float product), succeeds iff cash >= amount; on success the cash
\* is the old cash - amount (float difference), the holdings of the product
\* grow by q, and the other holdings and the day stay.
BuyRule ==
    \A p \in ProductNames : \A q \in BuyProbes(p) :
        BuyAsClaimed(p, q, FMulInt(priceEnd(Ledger.day, p), q),
                     api_order(Disk, p, "buy", IntQty(q), 0))

\* a buy was accepted and is the last trade of the history
BuyRuleWitness ==
    /\ response.route = "order"
    /\ response.ok
    /\ Ledger.history # <<>>
    /\ Last(Ledger.history).side = "buy"
    /\ Ledger.holdings[Last(Ledger.history).product] >= Last(Ledger.history).qty

\* quantities that probe a sell of p: a small one and the two around the
\* holdings
SellProbes(p) ==
    {q \in {SmallQty, Ledger.holdings[p], Ledger.holdings[p] + 1} : q > 0}

\* what C7 says of the result of a sell of q of p at the unit price
SellAsClaimed(p, q, price, result) ==
    /\ result.response.ok <=> Ledger.holdings[p] >= q
    /\ result.response.ok =>
          /\ LedgerAfter(result).holdings[p] = Ledger.holdings[p] - q
          /\ LedgerAfter(result).cash = FAdd(Ledger.cash, FMulInt(price, q))
          /\ \A other \in ProductNames \ {p} :
                LedgerAfter(result).holdings[other] = Ledger.holdings[other]
          /\ LedgerAfter(result).day = Ledger.day

\* C7 (sell rule): in every reachable state, a sell of a positive quantity q
\* of a registered product succeeds iff holdings[product] >= q; on success the
\* holdings of the product shrink by q, the cash is the old cash +
\* priceEnd(day, product) * q (float arithmetic), and the other holdings and
\* the day stay.
SellRule ==
    \A p \in ProductNames : \A q \in SellProbes(p) :
        SellAsClaimed(p, q, priceEnd(Ledger.day, p),
                      api_order(Disk, p, "sell", IntQty(q), 0))

\* a sell was accepted that sold a product down to zero
SellRuleWitness ==
    /\ response.route = "order"
    /\ response.ok
    /\ Ledger.history # <<>>
    /\ Last(Ledger.history).side = "sell"
    /\ Ledger.holdings[Last(Ledger.history).product] = 0

\* what C8 says of the result of an order with an integer quantity q
RecordedAsClaimed(p, side, q, result) ==
    IF result.response.ok
    THEN LedgerAfter(result).history =
            Append(Ledger.history,
                   [day |-> Ledger.day, product |-> p, side |-> side, qty |-> q,
                    price |-> priceEnd(Ledger.day, p),
                    amount |-> FMulInt(priceEnd(Ledger.day, p), q)])
    ELSE LedgerAfter(result).history = Ledger.history

\* C8 (trade recording): in every reachable state, an order with an integer
\* quantity that succeeds appends exactly one Trade at the end of the history,
\* with the current day, the requested product, side and quantity, price =
\* priceEnd(day, product) and amount = price * qty; one that fails appends
\* nothing.
TradeRecording ==
    \A p \in ProductInputs, side \in SideInputs,
       q \in {0, SmallQty} :
        RecordedAsClaimed(p, side, q, api_order(Disk, p, side, IntQty(q), 0))

\* one accepted buy after a reset: the history has exactly one entry
TradeRecordingWitness ==
    /\ response.route = "order"
    /\ response.ok
    /\ Len(Ledger.history) = 1
    /\ Ledger.history[1].side = "buy"

IsPrefix(a, b) == Len(a) <= Len(b) /\ SubSeq(b, 1, Len(a)) = a

NonDecreasingDays(h) == \A i \in 1..(Len(h) - 1) : h[i].day <= h[i + 1].day

\* C9 (append-only history): every request other than a reset leaves the old
\* history as a prefix of the new one, and the days of the recorded trades
\* never decrease along the history.
AppendOnlyHistory ==
    [][response'.route # "reset" =>
          /\ IsPrefix(Ledger.history, Ledger'.history)
          /\ NonDecreasingDays(Ledger'.history)]_vars

\* two trades of different days are in the history
AppendOnlyHistoryWitness ==
    /\ Len(Ledger.history) = 2
    /\ Ledger.history[1].day < Ledger.history[2].day

\* a game nobody has traded in
Fresh ==
    /\ Ledger.cash = ToFloat(InitialCash)
    /\ Ledger.holdings = [p \in ProductNames |-> 0]
    /\ Ledger.history = <<>>

\* the sell of C10, asked of the files the buy left
SellBack(p, bought) ==
    bought.response.ok =>
        /\ api_order(bought.disk, p, "sell", IntQty(10), 0).response.ok
        /\ LedgerAfter(api_order(bought.disk, p, "sell", IntQty(10), 0)).cash
              = Ledger.cash
        /\ LedgerAfter(api_order(bought.disk, p, "sell", IntQty(10), 0)).holdings[p]
              = Ledger.holdings[p]

\* C10 (round trip): in a fresh game, for every registered product, an
\* accepted buy of 10 followed at once by a sell of 10 on the same day has the
\* sell accepted and the cash and the holdings of the product back at their
\* values before the buy.
RoundTrip ==
    Fresh => \A p \in ProductNames :
                SellBack(p, api_order(Disk, p, "buy", IntQty(10), 0))

\* a buy of 10 and then a sell of 10 of the same product on the same day, in a
\* game that was fresh before, with the cash back at the starting cash
RoundTripWitness ==
    /\ Len(Ledger.history) = 2
    /\ Ledger.history[1].side = "buy" /\ Ledger.history[1].qty = 10
    /\ Ledger.history[2].side = "sell" /\ Ledger.history[2].qty = 10
    /\ Ledger.history[1].product = Ledger.history[2].product
    /\ Ledger.history[1].day = Ledger.history[2].day
    /\ Ledger.cash = ToFloat(InitialCash)
    /\ Ledger.holdings = [p \in ProductNames |-> 0]

\* C11: from every reachable state, POST /api/reset-game leaves day 1, cash
\* 1,000,000, a holding of 0 for every registered product and for nothing
\* else, and an empty history
ResetRestores ==
    \A today \in Dates :
        LET after == LedgerAfter(api_reset_game(Disk, today))
        IN  /\ after.day = 1
            /\ after.cash = ToFloat(InitialCash)
            /\ DOMAIN after.holdings = ProductNames
            /\ \A p \in ProductNames : after.holdings[p] = 0
            /\ after.history = <<>>

\* a reset has just been served, and the ledger is the initial one
ResetRestoresWitness ==
    /\ response.route = "reset"
    /\ Ledger.day = 1
    /\ Ledger.cash = ToFloat(InitialCash)
    /\ \A p \in ProductNames : Ledger.holdings[p] = 0
    /\ Ledger.history = <<>>

\* the DataFrames the calls of run_simulation have returned so far
Generated == {sim.first, sim.second} \ {<<>>}

\* C12: in every generated series the start price of a product on day d + 1
\* is its end price of day d, and its start price on day 1 is its base price
Chained(series) ==
    \A i \in 1..Len(series) :
        /\ series[i].day = 1 =>
               series[i].price_start = PRODUCTS[series[i].product].base_price
        /\ \A j \in 1..Len(series) :
               (series[j].product = series[i].product /\ series[j].day = series[i].day + 1)
                   => series[j].price_start = series[i].price_end

Chaining == \A series \in Generated : Chained(series)

\* two calls have returned, and a price has moved between two days
ChainingWitness ==
    /\ sim.pc = "remade"
    /\ \E i, j \in 1..Len(sim.second) :
           /\ sim.second[j].product = sim.second[i].product
           /\ sim.second[j].day = sim.second[i].day + 1
           /\ sim.second[j].price_start = sim.second[i].price_end
           /\ sim.second[j].price_start # sim.second[i].price_start

\* the smallest and the largest drift np.random.uniform(-0.05, 0.05) can draw,
\* in per mille
MinDrift == -50
MaxDrift == 49

\* the price after n more days of the same drift d (a price that has reached
\* zero stays there)
RECURSIVE Drifted(_, _, _)
Drifted(x, n, d) == IF n = 0 \/ x = 0 THEN x ELSE Drifted(FPerturb(x, d), n - 1, d)

\* the lowest price_end a product can have on each day
LowestPriceEnd ==
    [p \in ProductNames |-> [d \in 1..DAYS |-> Drifted(PRODUCTS[p].base_price, d, MinDrift)]]

\* a price no product exceeds within the horizon
PriceCeiling ==
    LET top == [p \in ProductNames |-> Drifted(PRODUCTS[p].base_price, DAYS, MaxDrift)]
    IN  top[CHOOSE p \in ProductNames : \A q \in ProductNames : top[q] <= top[p]]

\* a price step grows with the price and with the drift, so that no sequence
\* of drifts leads below the sequence of the smallest drifts
DriftMonotone ==
    \A x \in 1..PriceCeiling :
        /\ FPerturb(x, MinDrift) <= FPerturb(x + 1, MinDrift)
        /\ \A d \in MinDrift..MaxDrift : FPerturb(x, MinDrift) <= FPerturb(x, d)

\* C13: every record of every generated series has a positive start price
\* and a positive end price, and so has every series of drifts in -5%..+5%:
\* none is below the series of the smallest drifts, which stays positive
Positivity ==
    /\ \A series \in Generated : \A i \in 1..Len(series) :
           /\ series[i].price_start > 0
           /\ series[i].price_end > 0
           /\ series[i].price_end >= LowestPriceEnd[series[i].product][series[i].day]
           /\ series[i].price_end <= PriceCeiling
    /\ \A p \in ProductNames : \A d \in 1..DAYS : LowestPriceEnd[p][d] > 0
    /\ DriftMonotone

\* a series has been generated in which a price fell below its base price
PositivityWitness ==
    /\ sim.pc = "made"
    /\ \E i \in 1..Len(sim.first) :
           /\ sim.first[i].price_end < PRODUCTS[sim.first[i].product].base_price
           /\ sim.first[i].price_end > 0

\* C14: two calls of run_simulation with the same seed return the same
\* records in the same order with the same value in every field, whenever
\* the calls happen and whatever was drawn from np.random in between
Determinism == sim.pc = "remade" => sim.second = sim.first

\* a "qty" that is a positive integer
PositiveInteger(raw) == raw.k = "int" /\ raw.v > 0

\* the result the checks product, side, qty decide in this order, "" when
\* all three pass
FirstFailingCheck(product, side, raw) ==
    IF product \notin ProductNames THEN "no_such_product"
    ELSE IF side \notin {"buy", "sell"} THEN "bad_side"
    ELSE IF ~PositiveInteger(raw) THEN "bad_qty"
    ELSE ""

\* C15: POST /api/order checks the product, then the side, then that qty is
\* a positive integer; the first failing check decides the answer, which is
\* never an uncaught exception, and an order whose qty is zero, negative,
\* fractional or no number leaves the ledger as it was
OrderValidation ==
    \A product \in ProductInputs, side \in SideInputs, raw \in QtyInputs,
       today \in ClockReads :
        LET result == api_order(Disk, product, side, raw, today)
        IN  /\ result.response.msg # "exception"
            /\ result.response.status # 500
            /\ FirstFailingCheck(product, side, raw) # "" =>
                   /\ ~result.response.ok
                   /\ result.response.msg = FirstFailingCheck(product, side, raw)
            /\ ~PositiveInteger(raw) => LedgerAfter(result) = Ledger

\* the files after a run of n calls of /api/next-day that are all answered
\* with ok: a set of one element, or empty when a call of the run fails
RECURSIVE RunOfAdvances(_, _, _)
RunOfAdvances(disk, n, today) ==
    IF n = 0
    THEN {disk}
    ELSE UNION {RunOfAdvances(result.disk, n - 1, today) :
                  result \in {r \in {api_next_day(disk, today)} : r.response.ok}}

\* a run of DAYS - day advances succeeds and ends on the last day
ReachesHorizon ==
    \A today \in ClockReads :
        /\ RunOfAdvances(Disk, DAYS - Ledger.day, today) # {}
        /\ \A after \in RunOfAdvances(Disk, DAYS - Ledger.day, today) :
               after.state[1].day = DAYS

\* what a step that is no reset does to the day
DayStep ==
    /\ Ledger'.day >= Ledger.day
    /\ Ledger'.day # Ledger.day => response'.route = "next_day" /\ response'.ok
    /\ (response'.route = "next_day" /\ response'.ok) => Ledger'.day = Ledger.day + 1
    /\ Ledger.day = DAYS => Ledger'.day = DAYS

\* C16: between two resets the day never decreases and changes only through
\* a successful /api/next-day, by exactly +1; on day DAYS nothing but a reset
\* changes it; and from every state DAYS - day successful advances reach
\* day DAYS
TerminalDay ==
    /\ []ReachesHorizon
    /\ [][response'.route # "reset" => DayStep]_vars

\* an order was filled on the last day, which the game reached by advancing
TerminalDayWitness ==
    /\ Ledger.day = DAYS
    /\ response.route = "order"
    /\ response.ok
    /\ Ledger.history # <<>>

\* the record of day d and of the i-th product of the registry stands at
\* this place of a series ordered by day and then by registry order
PlaceOf(d, i) == (d - 1) * Len(ProductOrder) + i

\* the rows get_today_prices selects for day d and product p
TodayRows(df, d, p) == Rows(df, LAMBDA r : r.day = d /\ r.product = p)

\* the DataFrame load_prices_df reads from the file a series was written to
Reloaded(series) == read_csv(to_csv(series))

\* one record for each pair of a day and a product, in order
Covered(series) ==
    /\ Len(series) = DAYS * Len(ProductOrder)
    /\ \A d \in 1..DAYS : \A i \in 1..Len(ProductOrder) :
           /\ series[PlaceOf(d, i)].day = d
           /\ series[PlaceOf(d, i)].product = ProductOrder[i]

\* the lookup of get_today_prices in df finds the record of the day in the
\* series df was read from
FoundIn(df, series) ==
    \A d \in 1..DAYS : \A i \in 1..Len(ProductOrder) :
        /\ Len(TodayRows(df, d, ProductOrder[i])) = 1
        /\ PriceOf(df, d, ProductOrder[i])
               = ParseDecimal(Decimal(series[PlaceOf(d, i)].price_end))

\* C17: every generated series holds exactly one record for each pair of a
\* day in 1..DAYS and a registered product, ordered by day and then by
\* registry order; so for every day of the game the price lookup finds that
\* day's record for every product and never falls back to the last price
SeriesCoverage ==
    \A series \in Generated : Covered(series) /\ FoundIn(Reloaded(series), series)

\* a series has been generated, and the lookup for the last day finds the
\* last record
SeriesCoverageWitness ==
    /\ sim.pc = "made"
    /\ Len(sim.first) = DAYS * Len(ProductOrder)
    /\ sim.first[Len(sim.first)].day = DAYS
    /\ TodayRows(Reloaded(sim.first), DAYS, ProductOrder[Len(ProductOrder)]) # <<>>

\* the sum of amount over the first n trades of a history that are of a side,
\* in exact arithmetic
RECURSIVE SumAmount(_, _, _)
SumAmount(history, n, side) ==
    IF n = 0
    THEN 0
    ELSE SumAmount(history, n - 1, side)
             + (IF history[n].side = side THEN history[n].amount ELSE 0)

\* the sum of qty over the first n trades that are of a side and of product p
RECURSIVE SumQty(_, _, _, _)
SumQty(history, n, side, p) ==
    IF n = 0
    THEN 0
    ELSE SumQty(history, n - 1, side, p)
             + (IF history[n].side = side /\ history[n].product = p
                THEN history[n].qty ELSE 0)

\* the cash after the first n trades of a history, as api_order computes it:
\* one float subtraction or addition per trade, each rounded
RECURSIVE CashAfter(_, _)
CashAfter(history, n) ==
    IF n = 0
    THEN ToFloat(InitialCash)
    ELSE IF history[n].side = "buy"
    THEN FSub(CashAfter(history, n - 1), history[n].amount)
    ELSE FAdd(CashAfter(history, n - 1), history[n].amount)

\* holdings[p] is the quantity bought minus the quantity sold
HoldingsConserved ==
    \A p \in ProductNames :
        Ledger.holdings[p] = SumQty(Ledger.history, Len(Ledger.history), "buy", p)
                                 - SumQty(Ledger.history, Len(Ledger.history), "sell", p)

\* C18 as stated: cash is the initial cash minus the sum of amount over the
\* buy trades in history plus the sum of amount over the sell trades, and
\* holdings[p] is the sum of qty over the buys of p minus that over its sells
LedgerConservation ==
    /\ Ledger.cash = ToFloat(InitialCash)
                         - SumAmount(Ledger.history, Len(Ledger.history), "buy")
                         + SumAmount(Ledger.history, Len(Ledger.history), "sell")
    /\ HoldingsConserved

\* C18 as the code has it: cash is the initial cash with the amounts of the
\* trades subtracted and added one by one in the order of history, each step
\* rounded to a float, and holdings[p] is the sum of qty over the buys of p
\* minus that over its sells
LedgerReplay ==
    /\ Ledger.cash = CashAfter(Ledger.history, Len(Ledger.history))
    /\ HoldingsConserved

\* a buy and a sell are recorded, and the cash is not the exact sum
LedgerReplayWitness ==
    /\ \E i, j \in 1..Len(Ledger.history) :
           Ledger.history[i].side = "buy" /\ Ledger.history[j].side = "sell"
    /\ Ledger.cash # ToFloat(InitialCash)
                         - SumAmount(Ledger.history, Len(Ledger.history), "buy")
                         + SumAmount(Ledger.history, Len(Ledger.history), "sell")
    /\ Ledger.cash = CashAfter(Ledger.history, Len(Ledger.history))

\* C19: a request to /api/next-day, answered with ok or with a failure,
\* leaves cash, every holding, the history and the price series as they were
AdvanceFrame ==
    [][response'.route = "next_day" =>
           /\ Ledger'.cash = Ledger.cash
           /\ Ledger'.holdings = Ledger.holdings
           /\ Ledger'.history = Ledger.history
           /\ pricesFile' = pricesFile]_vars

\* the day was advanced while a position was held
AdvanceFrameWitness ==
    /\ response.route = "next_day"
    /\ response.ok
    /\ Ledger.day > 1
    /\ Ledger.history # <<>>
    /\ \E p \in ProductNames : Ledger.holdings[p] > 0
    /\ Ledger.cash < ToFloat(InitialCash)

\* C20: while the state file exists, a request to GET /api/state leaves day,
\* cash, holdings and history as they were, whatever the state of the
\* prices file
SnapshotReadOnly ==
    [][(stateFile # <<>> /\ response'.route = "state") =>
           /\ Ledger'.day = Ledger.day
           /\ Ledger'.cash = Ledger.cash
           /\ Ledger'.holdings = Ledger.holdings
           /\ Ledger'.history = Ledger.history]_vars

====
